---- MODULE Spec2Model ----
(***************************************************************************)
(* Model of src/main.c, the ROM-based ("toothpaste") conversion of a       *)
(* 32-bit unsigned integer to decimal digits: the quotient and remainder   *)
(* tables, the fullDecimal32_t accumulator and its word-wise lazy          *)
(* addition, carryDecimal, fillBuffer, decimalROM and uitodec.             *)
(*                                                                         *)
(* Representation.  A fullDecimal32_t is the 10-tuple of its bytes         *)
(* digits[0..9] (tuple position k holds digits[k-1]).  A uint32_t is the   *)
(* record [hi, lo] of its two 16-bit halves, since the model checker's     *)
(* integers are 32-bit signed and cannot hold 0x80000000..0xFFFFFFFF.      *)
(***************************************************************************)
EXTENDS Integers, Sequences, FiniteSets

\* Number of bit positions an input may have set (sparse inputs) or clear
\* (dense inputs); bounds the inputs of uitodec that are explored.
MaxBits == 2

\* The same bound for the runs checked for termination under fairness.
MaxFairBits == 1

\* Number of slots that may be nonzero in the accumulators handed to the
\* pure functions carryDecimal, addDecimalLazy and fillBuffer.
MaxSlots == 2

(***************************************************************************)
(* Data tables                                                             *)
(***************************************************************************)

\* quotients[] with entry 13 (index 12) mistyped as 0: a data-entry slip.
quotients_slip ==
    [b \in 1..256 |-> IF b = 13 THEN 0 ELSE (b - 1) \div 10]

quotients ==
    << 0, 0, 0, 0, 0, 0, 0, 0, 0, 0, 1, 1, 1, 1, 1, 1, 1, 1, 1, 1,
       2, 2, 2, 2, 2, 2, 2, 2, 2, 2, 3, 3, 3, 3, 3, 3, 3, 3, 3, 3,
       4, 4, 4, 4, 4, 4, 4, 4, 4, 4, 5, 5, 5, 5, 5, 5, 5, 5, 5, 5,
       6, 6, 6, 6, 6, 6, 6, 6, 6, 6, 7, 7, 7, 7, 7, 7, 7, 7, 7, 7,
       8, 8, 8, 8, 8, 8, 8, 8, 8, 8, 9, 9, 9, 9, 9, 9, 9, 9, 9, 9,
       10, 10, 10, 10, 10, 10, 10, 10, 10, 10, 11, 11, 11, 11, 11, 11, 11, 11, 11, 11,
       12, 12, 12, 12, 12, 12, 12, 12, 12, 12, 13, 13, 13, 13, 13, 13, 13, 13, 13, 13,
       14, 14, 14, 14, 14, 14, 14, 14, 14, 14, 15, 15, 15, 15, 15, 15, 15, 15, 15, 15,
       16, 16, 16, 16, 16, 16, 16, 16, 16, 16, 17, 17, 17, 17, 17, 17, 17, 17, 17, 17,
       18, 18, 18, 18, 18, 18, 18, 18, 18, 18, 19, 19, 19, 19, 19, 19, 19, 19, 19, 19,
       20, 20, 20, 20, 20, 20, 20, 20, 20, 20, 21, 21, 21, 21, 21, 21, 21, 21, 21, 21,
       22, 22, 22, 22, 22, 22, 22, 22, 22, 22, 23, 23, 23, 23, 23, 23, 23, 23, 23, 23,
       24, 24, 24, 24, 24, 24, 24, 24, 24, 24, 25, 25, 25, 25, 25, 25 >>

\* remainders[] shifted by one entry: a table generated from 1 instead of 0.
remainders_shifted ==
    [b \in 1..256 |-> b % 10]

remainders ==
    << 0, 1, 2, 3, 4, 5, 6, 7, 8, 9, 0, 1, 2, 3, 4, 5, 6, 7, 8, 9,
       0, 1, 2, 3, 4, 5, 6, 7, 8, 9, 0, 1, 2, 3, 4, 5, 6, 7, 8, 9,
       0, 1, 2, 3, 4, 5, 6, 7, 8, 9, 0, 1, 2, 3, 4, 5, 6, 7, 8, 9,
       0, 1, 2, 3, 4, 5, 6, 7, 8, 9, 0, 1, 2, 3, 4, 5, 6, 7, 8, 9,
       0, 1, 2, 3, 4, 5, 6, 7, 8, 9, 0, 1, 2, 3, 4, 5, 6, 7, 8, 9,
       0, 1, 2, 3, 4, 5, 6, 7, 8, 9, 0, 1, 2, 3, 4, 5, 6, 7, 8, 9,
       0, 1, 2, 3, 4, 5, 6, 7, 8, 9, 0, 1, 2, 3, 4, 5, 6, 7, 8, 9,
       0, 1, 2, 3, 4, 5, 6, 7, 8, 9, 0, 1, 2, 3, 4, 5, 6, 7, 8, 9,
       0, 1, 2, 3, 4, 5, 6, 7, 8, 9, 0, 1, 2, 3, 4, 5, 6, 7, 8, 9,
       0, 1, 2, 3, 4, 5, 6, 7, 8, 9, 0, 1, 2, 3, 4, 5, 6, 7, 8, 9,
       0, 1, 2, 3, 4, 5, 6, 7, 8, 9, 0, 1, 2, 3, 4, 5, 6, 7, 8, 9,
       0, 1, 2, 3, 4, 5, 6, 7, 8, 9, 0, 1, 2, 3, 4, 5, 6, 7, 8, 9,
       0, 1, 2, 3, 4, 5, 6, 7, 8, 9, 0, 1, 2, 3, 4, 5 >>

\* C arrays are indexed from 0, tuples from 1.
At(arr, idx) == arr[idx + 1]

decimalROM ==
    << <<2, 1, 4, 7, 4, 8, 3, 6, 4, 8>>,
       <<1, 0, 7, 3, 7, 4, 1, 8, 2, 4>>,
       <<0, 5, 3, 6, 8, 7, 0, 9, 1, 2>>,
       <<0, 2, 6, 8, 4, 3, 5, 4, 5, 6>>,
       <<0, 1, 3, 4, 2, 1, 7, 7, 2, 8>>,
       <<0, 0, 6, 7, 1, 0, 8, 8, 6, 4>>,
       <<0, 0, 3, 3, 5, 5, 4, 4, 3, 2>>,
       <<0, 0, 1, 6, 7, 7, 7, 2, 1, 6>>,
       <<0, 0, 0, 8, 3, 8, 8, 6, 0, 8>>,
       <<0, 0, 0, 4, 1, 9, 4, 3, 0, 4>>,
       <<0, 0, 0, 2, 0, 9, 7, 1, 5, 2>>,
       <<0, 0, 0, 1, 0, 4, 8, 5, 7, 6>>,
       <<0, 0, 0, 0, 5, 2, 4, 2, 8, 8>>,
       <<0, 0, 0, 0, 2, 6, 2, 1, 4, 4>>,
       <<0, 0, 0, 0, 1, 3, 1, 0, 7, 2>>,
       <<0, 0, 0, 0, 0, 6, 5, 5, 3, 6>>,
       <<0, 0, 0, 0, 0, 3, 2, 7, 6, 8>>,
       <<0, 0, 0, 0, 0, 1, 6, 3, 8, 4>>,
       <<0, 0, 0, 0, 0, 0, 8, 1, 9, 2>>,
       <<0, 0, 0, 0, 0, 0, 4, 0, 9, 6>>,
       <<0, 0, 0, 0, 0, 0, 2, 0, 4, 8>>,
       <<0, 0, 0, 0, 0, 0, 1, 0, 2, 4>>,
       <<0, 0, 0, 0, 0, 0, 0, 5, 1, 2>>,
       <<0, 0, 0, 0, 0, 0, 0, 2, 5, 6>>,
       <<0, 0, 0, 0, 0, 0, 0, 1, 2, 8>>,
       <<0, 0, 0, 0, 0, 0, 0, 0, 6, 4>>,
       <<0, 0, 0, 0, 0, 0, 0, 0, 3, 2>>,
       <<0, 0, 0, 0, 0, 0, 0, 0, 1, 6>>,
       <<0, 0, 0, 0, 0, 0, 0, 0, 0, 8>>,
       <<0, 0, 0, 0, 0, 0, 0, 0, 0, 4>>,
       <<0, 0, 0, 0, 0, 0, 0, 0, 0, 2>>,
       <<0, 0, 0, 0, 0, 0, 0, 0, 0, 1>> >>


(***************************************************************************)
(* uint32_t arithmetic on 16-bit halves                                    *)
(***************************************************************************)

U32(h, l) == [hi |-> h, lo |-> l]

RECURSIVE BitAnd16(_, _)
BitAnd16(x, y) ==
    IF x = 0 \/ y = 0 THEN 0
    ELSE (x % 2) * (y % 2) + 2 * BitAnd16(x \div 2, y \div 2)

\* x & y
BitAnd32(x, y) == U32(BitAnd16(x.hi, y.hi), BitAnd16(x.lo, y.lo))

\* the truth value of x as a C condition
NonZero(x) == x.hi # 0 \/ x.lo # 0

leftmostBit == U32(32768, 0)

\* i >>= 1 written for i <<= 1.
ShiftLeft_right(x) == U32(x.hi \div 2, (x.lo \div 2) + 32768 * (x.hi % 2))

\* i <<= 1 on a uint32_t: the bit shifted out of bit 31 is dropped.
ShiftLeft(x) == U32((2 * x.hi + (2 * x.lo) \div 65536) % 65536, (2 * x.lo) % 65536)

\* The increment computed but not stored: count stays where it is.
IncCount_lost(c) == c

\* count++ / count += 1 on an int8_t (wrapping at 127 as two's complement).
IncCount(c) == ((c + 1 + 128) % 256) - 128

(***************************************************************************)
(* fullDecimal32_t                                                         *)
(***************************************************************************)

Slots == 1..10

ZeroDecimal == [s \in Slots |-> 0]

\* The bytes of arith.high and arith.low, least significant byte first, as
\* positions of digits[]: the union overlays high on digits[0..7] and low on
\* digits[8..9], in the byte order of the platform.
HighBytes(be) == IF be THEN <<8, 7, 6, 5, 4, 3, 2, 1>> ELSE <<1, 2, 3, 4, 5, 6, 7, 8>>
LowBytes(be) == IF be THEN <<10, 9>> ELSE <<9, 10>>

\* x + y on unsigned words of Len(x) bytes given least significant byte
\* first: byte k of the sum, the carry out of the top byte being dropped.
RECURSIVE CarryInto(_, _, _)
CarryInto(x, y, k) ==
    IF k = 1 THEN 0 ELSE (x[k-1] + y[k-1] + CarryInto(x, y, k - 1)) \div 256

WordAdd(x, y) == [k \in 1..Len(x) |-> (x[k] + y[k] + CarryInto(x, y, k)) % 256]

Word(d, order) == [k \in 1..Len(order) |-> d[order[k]]]

\* The position of slot s in a byte order.
PosIn(order, s) == CHOOSE k \in 1..Len(order) : order[k] = s

(***************************************************************************)
(* State                                                                   *)
(***************************************************************************)

VARIABLES
    bigEndian,   \* the platform's byte order (decides how the union overlays)
    pc,          \* position in main / uitodec / fillBuffer, or in a direct call
    number,      \* main: the value handed to uitodec
    i,           \* uitodec: the working value
    count,       \* uitodec: int8_t index into decimalROM
    a,           \* uitodec: the accumulator
    decimal,     \* the argument of fillBuffer / carryDecimal
    decimalPtr,  \* fillBuffer
    bufferPtr,   \* fillBuffer
    buffer,      \* fillBuffer: char buffer[11], the cells written so far
    ret,         \* fillBuffer: the value returned
    d1, d2,      \* addDecimalLazy: the arguments of a direct call
    result,      \* the value returned by a direct call
    byte,        \* a table index of a direct lookup
    quo, rem,    \* the entries read by a direct lookup
    colSum,      \* history: per slot, the unwrapped sum of the ROM entries added
    added,       \* history: the decimalROM indices read, in order
    carried,     \* history: number of carryDecimal calls made by uitodec
    shifts       \* history: number of i <<= 1 executed by uitodec

vars == <<bigEndian, pc, number, i, count, a, decimal, decimalPtr, bufferPtr,
          buffer, ret, d1, d2, result, byte, quo, rem, colSum, added, carried,
          shifts>>

uitodecVars == <<number, i, count, a, colSum, added, carried, shifts>>
fillVars == <<decimalPtr, bufferPtr, buffer, ret>>
callVars == <<d1, d2, result>>
lookupVars == <<byte, quo, rem>>

(***************************************************************************)
(* addDecimalLazy, carryDecimal                                            *)
(***************************************************************************)

\* The accumulator whose arith.high and arith.low are the words high and low
\* (least significant byte first).
FromWords(high, low) ==
    [s \in Slots |->
        IF s <= 8 THEN high[PosIn(HighBytes(bigEndian), s)]
                  ELSE low[PosIn(LowBytes(bigEndian), s)]]

\* result.arith.low = d1.arith.low left without the addition of d2's.
addDecimalLazy_lowLost(x, y) ==
    FromWords(WordAdd(Word(x, HighBytes(bigEndian)), Word(y, HighBytes(bigEndian))),
              Word(x, LowBytes(bigEndian)))

\* One 64-bit addition over digits[0..7], one 16-bit addition over
\* digits[8..9]; a byte sum above 255 carries into the next byte of its word.
addDecimalLazy(x, y) ==
    FromWords(WordAdd(Word(x, HighBytes(bigEndian)), Word(y, HighBytes(bigEndian))),
              WordAdd(Word(x, LowBytes(bigEndian)), Word(y, LowBytes(bigEndian))))

\* One iteration of carryDecimal's loop at C index k (1..9): digits[k-1] gets
\* the quotient added (uint8_t, so modulo 256), digits[k] becomes the remainder.
CarryStep(d, k) ==
    [d EXCEPT ![k] = (d[k] + At(quotients, d[k + 1])) % 256,
              ![k + 1] = At(remainders, d[k + 1])]

\* The iterations at C indices k, k-1, ..., last.  (next \in {...} binds the
\* accumulator after one iteration as a value, so that it is computed once.)
RECURSIVE CarryLoop(_, _, _)
CarryLoop(d, k, last) ==
    IF k < last THEN d
    ELSE CHOOSE r \in {CarryLoop(next, k - 1, last) : next \in {CarryStep(d, k)}} : TRUE

\* The loop written "for (i = 9; i > 1; i--)": digits[1] is never divided.
carryDecimal_stopsEarly(d) == CarryLoop(d, 9, 2)

\* for (int i = 9; i > 0; i--)
carryDecimal(d) == CarryLoop(d, 9, 1)

(***************************************************************************)
(* Inputs                                                                  *)
(***************************************************************************)

Bits == 0..31

\* The sets of at most n bit positions.
RECURSIVE BitSets(_)
BitSets(n) ==
    IF n = 0 THEN {{}}
    ELSE LET smaller == BitSets(n - 1)
         IN  smaller \cup {S \cup {p} : S \in smaller, p \in Bits}

RECURSIVE SumPow2(_, _)
SumPow2(S, base) ==
    IF S = {} THEN 0
    ELSE LET p == CHOOSE q \in S : TRUE
         IN  2 ^ (p - base) + SumPow2(S \ {p}, base)

\* The uint32_t whose set bits are the positions in S.
ValueOf(S) == U32(SumPow2(S \cap (16..31), 16), SumPow2(S \cap (0..15), 0))

\* uitodec's inputs: every value with at most MaxBits bits set, and every
\* value with at most MaxBits bits clear (0 and 0xFFFFFFFF among them).
Inputs ==
    {ValueOf(S) : S \in BitSets(MaxBits)} \cup {ValueOf(Bits \ S) : S \in BitSets(MaxBits)}

\* Whether bit p of x is set.
BitSet(x, p) == IF p >= 16 THEN (x.hi \div 2 ^ (p - 16)) % 2 = 1 ELSE (x.lo \div 2 ^ p) % 2 = 1

\* The accumulators with at most n slots nonzero, those drawn from vals.
RECURSIVE Decimals(_, _)
Decimals(n, vals) ==
    IF n = 0 THEN {ZeroDecimal}
    ELSE LET fewer == Decimals(n - 1, vals)
         IN  fewer \cup {[d EXCEPT ![s] = x] : d \in fewer, s \in Slots, x \in vals}

ROMEntries == {decimalROM[k] : k \in 1..32}

\* Accumulators with every slot in [0,9].
HappyInputs ==
    Decimals(MaxSlots, {1, 5, 9}) \cup {[s \in Slots |-> x] : x \in 0..9} \cup ROMEntries

\* Accumulators with slots anywhere in [0,255].
ByteInputs ==
    Decimals(MaxSlots, {1, 9, 10, 99, 100, 255}) \cup {[s \in Slots |-> x] : x \in 0..255}
        \cup HappyInputs

(***************************************************************************)
(* uitodec, as called by main                                              *)
(***************************************************************************)

\* !(i & leftmostBit)
TopBitClear(x) == ~NonZero(BitAnd32(x, leftmostBit))

\* The values a read of decimalROM[c] may yield: the entry, or for an index
\* outside the array whatever lies in memory there.
ROMRead(c) ==
    IF c \in 0..31 THEN {At(decimalROM, c)}
    ELSE {ZeroDecimal, [s \in Slots |-> 255]}

UitodecIdle ==
    /\ number = U32(0, 0) /\ i = U32(0, 0) /\ count = 0 /\ a = ZeroDecimal
    /\ colSum = ZeroDecimal /\ added = <<>> /\ carried = 0 /\ shifts = 0

\* fillBuffer not yet entered: no cell of buffer written.
FillIdle == decimalPtr = 0 /\ bufferPtr = 0 /\ buffer = <<>> /\ ret = 0

CallIdle == d1 = ZeroDecimal /\ d2 = ZeroDecimal /\ result = ZeroDecimal

LookupIdle == byte = 0 /\ quo = 0 /\ rem = 0

\* main calls uitodec(number): a is zeroed and count = 0.
Init ==
    /\ bigEndian \in BOOLEAN
    /\ pc = "loop"
    /\ number \in Inputs
    /\ i = number
    /\ count = 0
    /\ a = ZeroDecimal
    /\ colSum = ZeroDecimal /\ added = <<>> /\ carried = 0 /\ shifts = 0
    /\ decimal = ZeroDecimal
    /\ FillIdle /\ CallIdle /\ LookupIdle

\* while (i): enter the body, or leave the loop for the final carry.
OuterTest ==
    /\ pc = "loop"
    /\ pc' = IF NonZero(i) THEN "scan" ELSE "carry"
    /\ UNCHANGED <<bigEndian, uitodecVars, decimal, fillVars, callVars, lookupVars>>

\* while (!(i & leftmostBit)) { count++; i <<= 1; }
InnerShift ==
    /\ pc = "scan"
    /\ TopBitClear(i)
    /\ count' = IncCount(count)
    /\ i' = ShiftLeft(i)
    /\ shifts' = shifts + 1
    /\ UNCHANGED <<bigEndian, pc, number, a, colSum, added, carried, decimal,
                   fillVars, callVars, lookupVars>>

\* a = addDecimalLazy(a, decimalROM[count]); count += 1; i <<= 1;
AddROM ==
    /\ pc = "scan"
    /\ ~TopBitClear(i)
    /\ \E entry \in ROMRead(count) :
          /\ a' = addDecimalLazy(a, entry)
          /\ colSum' = [s \in Slots |-> colSum[s] + entry[s]]
    /\ added' = Append(added, count)
    /\ count' = IncCount(count)
    /\ i' = ShiftLeft(i)
    /\ shifts' = shifts + 1
    /\ pc' = "loop"
    /\ UNCHANGED <<bigEndian, number, carried, decimal, fillVars, callVars, lookupVars>>

\* a = carryDecimal(a); return a;  and main hands the result to fillBuffer.
Carry ==
    /\ pc = "carry"
    /\ a' = carryDecimal(a)
    /\ carried' = carried + 1
    /\ decimal' = a'
    /\ pc' = "fill"
    /\ UNCHANGED <<bigEndian, number, i, count, colSum, added, shifts,
                   fillVars, callVars, lookupVars>>

(***************************************************************************)
(* fillBuffer                                                              *)
(***************************************************************************)

WordIsZero(d, order) == \A k \in 1..Len(order) : d[order[k]] = 0

\* The test written with || for &&.
AllZero_either(d) ==
    WordIsZero(d, LowBytes(bigEndian)) \/ WordIsZero(d, HighBytes(bigEndian))

\* decimal.arith.low == 0 && decimal.arith.high == 0
AllZero(d) ==
    WordIsZero(d, LowBytes(bigEndian)) /\ WordIsZero(d, HighBytes(bigEndian))

\* The digit stored without the + '0'.
AsciiDigit_raw(x) == x

\* decimal.digits[decimalPtr] + '0', stored in a char
AsciiDigit(x) == (x + 48) % 256

\* The values a read of decimal.digits[p] may yield: the slot, or for an
\* index past the array whatever byte lies there.
ReadSlot(d, p) == IF p \in 0..9 THEN {d[p + 1]} ELSE 0..255

\* buffer[p] = c
Write(buf, p, c) ==
    [k \in (DOMAIN buf) \cup {p} |-> IF k = p THEN c ELSE buf[k]]

\* The all-zero branch: buffer[0] = '0'; buffer[1] = '\0'; return 1;
FillZero ==
    /\ pc = "fill"
    /\ AllZero(decimal)
    /\ buffer' = Write(Write(buffer, 0, 48), 1, 0)
    /\ ret' = 1
    /\ pc' = "done"
    /\ UNCHANGED <<bigEndian, uitodecVars, decimal, decimalPtr, bufferPtr,
                   callVars, lookupVars>>

\* Otherwise: int decimalPtr = 0, and on to the skipping loop.
FillStart ==
    /\ pc = "fill"
    /\ ~AllZero(decimal)
    /\ decimalPtr' = 0
    /\ pc' = "skip"
    /\ UNCHANGED <<bigEndian, uitodecVars, decimal, bufferPtr, buffer, ret,
                   callVars, lookupVars>>

\* while (decimal.digits[decimalPtr] == 0) decimalPtr++;  bufferPtr = 0;
SkipZero ==
    /\ pc = "skip"
    /\ \E x \in ReadSlot(decimal, decimalPtr) :
          IF x = 0
          THEN /\ decimalPtr' = decimalPtr + 1
               /\ UNCHANGED <<pc, bufferPtr>>
          ELSE /\ bufferPtr' = 0
               /\ pc' = "emit"
               /\ UNCHANGED decimalPtr
    /\ UNCHANGED <<bigEndian, uitodecVars, decimal, buffer, ret, callVars, lookupVars>>

\* while (decimalPtr < 10) { buffer[bufferPtr] = ... + '0'; bufferPtr++; decimalPtr++; }
EmitDigit ==
    /\ pc = "emit"
    /\ decimalPtr < 10
    /\ buffer' = Write(buffer, bufferPtr, AsciiDigit(decimal[decimalPtr + 1]))
    /\ bufferPtr' = bufferPtr + 1
    /\ decimalPtr' = decimalPtr + 1
    /\ UNCHANGED <<bigEndian, pc, uitodecVars, decimal, ret, callVars, lookupVars>>

\* buffer[bufferPtr] = '\0'; return bufferPtr;
EmitEnd ==
    /\ pc = "emit"
    /\ decimalPtr >= 10
    /\ buffer' = Write(buffer, bufferPtr, 0)
    /\ ret' = bufferPtr
    /\ pc' = "done"
    /\ UNCHANGED <<bigEndian, uitodecVars, decimal, decimalPtr, bufferPtr,
                   callVars, lookupVars>>

FillNext == FillZero \/ FillStart \/ SkipZero \/ EmitDigit \/ EmitEnd

(***************************************************************************)
(* Specifications                                                          *)
(***************************************************************************)

Next == OuterTest \/ InnerShift \/ AddROM \/ Carry \/ FillNext

\* main: uitodec(number) followed by fillBuffer.
Spec == Init /\ [][Next]_vars

\* The same program on the inputs with at most MaxFairBits bits set or clear.
\* main is the only thread and none of its steps blocks, so a step that can
\* be taken is eventually taken.
FairInputs ==
    {ValueOf(S) : S \in BitSets(MaxFairBits)}
        \cup {ValueOf(Bits \ S) : S \in BitSets(MaxFairBits)}

InitFair == Init /\ number \in FairInputs

FairSpec == InitFair /\ [][Next]_vars /\ WF_vars(Next)

\* fillBuffer called directly on an accumulator with every slot in [0,9].
InitFill ==
    /\ bigEndian \in BOOLEAN
    /\ pc = "fill"
    /\ decimal \in HappyInputs
    /\ UitodecIdle /\ FillIdle /\ CallIdle /\ LookupIdle

SpecFill == InitFill /\ [][FillNext]_vars

\* carryDecimal called directly on an accumulator of arbitrary bytes.
InitCarry ==
    /\ bigEndian \in BOOLEAN
    /\ pc = "call"
    /\ decimal \in ByteInputs
    /\ UitodecIdle /\ FillIdle /\ CallIdle /\ LookupIdle

CallCarry ==
    /\ pc = "call"
    /\ result' = carryDecimal(decimal)
    /\ pc' = "returned"
    /\ UNCHANGED <<bigEndian, uitodecVars, decimal, fillVars, d1, d2, lookupVars>>

SpecCarry == InitCarry /\ [][CallCarry]_vars

\* uitodec in main together with direct calls of carryDecimal.
InitNormalize == Init \/ InitCarry

NextNormalize == Next \/ CallCarry

SpecNormalize == InitNormalize /\ [][NextNormalize]_vars

\* addDecimalLazy called directly on two accumulators of arbitrary bytes.
AddLeft == Decimals(MaxSlots, {1, 128, 255}) \cup {[s \in Slots |-> x] : x \in {9, 100, 127, 128, 255}}

AddRight == Decimals(1, {1, 128, 255}) \cup {[s \in Slots |-> x] : x \in {9, 100, 127, 128, 255}}

InitAdd ==
    /\ bigEndian \in BOOLEAN
    /\ pc = "call"
    /\ d1 \in AddLeft
    /\ d2 \in AddRight
    /\ decimal = ZeroDecimal /\ result = ZeroDecimal
    /\ UitodecIdle /\ FillIdle /\ LookupIdle

CallAdd ==
    /\ pc = "call"
    /\ result' = addDecimalLazy(d1, d2)
    /\ pc' = "returned"
    /\ UNCHANGED <<bigEndian, uitodecVars, decimal, fillVars, d1, d2, lookupVars>>

SpecAdd == InitAdd /\ [][CallAdd]_vars

\* One read of each table at the same index, as carryDecimal's loop body does.
InitLookup ==
    /\ bigEndian \in BOOLEAN
    /\ pc = "call"
    /\ byte \in 0..255
    /\ quo = 0 /\ rem = 0
    /\ decimal = ZeroDecimal
    /\ UitodecIdle /\ FillIdle /\ CallIdle

Lookup ==
    /\ pc = "call"
    /\ quo' = At(quotients, byte)
    /\ rem' = At(remainders, byte)
    /\ pc' = "returned"
    /\ UNCHANGED <<bigEndian, uitodecVars, decimal, fillVars, callVars, byte>>

SpecTables == InitLookup /\ [][Lookup]_vars

(***************************************************************************)
(* Reference definitions used by the properties                            *)
(***************************************************************************)

\* The number written by the first n decimal digits of digs, most significant
\* first, as [hi, lo] with lo < 65536 and hi left unreduced (a value of 2^32
\* or more is not confused with a uint32_t).
RECURSIVE DecimalValue(_, _)
DecimalValue(digs, n) ==
    IF n = 0 THEN U32(0, 0)
    ELSE LET prev == DecimalValue(digs, n - 1)
             t == prev.lo * 10 + digs[n]
         IN  U32(prev.hi * 10 + t \div 65536, t % 65536)

\* The characters buffer[0..n-1].
Text(buf, n) == [k \in 1..n |-> buf[k - 1]]

\* Number of zero slots before the first nonzero slot.
RECURSIVE LeadingZeros(_, _)
LeadingZeros(d, s) ==
    IF s > 10 \/ d[s] # 0 THEN 0 ELSE 1 + LeadingZeros(d, s + 1)

\* The decimalROM indices of the set bits of x, from bit p downwards.
RECURSIVE ExpectedReads(_, _)
ExpectedReads(x, p) ==
    IF p < 0 THEN <<>>
    ELSE (IF BitSet(x, p) THEN <<31 - p>> ELSE <<>>) \o ExpectedReads(x, p - 1)

Happy(d) == \A s \in Slots : d[s] \in 0..9

MaxU32 == U32(65535, 65535)

(***************************************************************************)
(* Properties                                                              *)
(***************************************************************************)

C2_EncodeIsHappyAndExact ==
    carried = 1 =>
        /\ Happy(a)
        /\ DecimalValue(a, 10) = number
        /\ (number = MaxU32 => a = <<4, 2, 9, 4, 9, 6, 7, 2, 9, 5>>)

\* uitodec(4294967295) has returned, its slots carried from sums above 9.
C2_Witness ==
    /\ carried = 1 /\ number = MaxU32
    /\ colSum[10] > 9
    /\ a = <<4, 2, 9, 4, 9, 6, 7, 2, 9, 5>>

\* C3: throughout the lazy accumulation of uitodec the unwrapped sum of the
\* ROM entries added so far is at most 255 in every slot, and the accumulator
\* holds exactly those sums: no byte wrapped and no carry crossed into a
\* neighbouring byte of the word additions.
C3_NoSlotOverflow ==
    /\ \A s \in Slots : colSum[s] <= 255
    /\ (carried = 0 => a = colSum)

\* All 32 entries have been added: the units column holds its worst case, 155.
C3_Witness ==
    /\ carried = 0 /\ Len(added) = 32 /\ number = MaxU32
    /\ colSum[10] = 155 /\ a[10] = 155

RECURSIVE CarryOut(_, _)
CarryOut(d, s) ==
    IF s > 10 THEN 0 ELSE ((d[s] + CarryOut(d, s + 1)) % 256) \div 10

\* C5 as stated: carryDecimal leaves every slot, slot 0 included, in [0,9]
\* for every accumulator of bytes.
C5_AllSlotsHappy ==
    pc = "returned" => Happy(result)

\* C5 as amended: carryDecimal leaves slots 1..9 in [0,9]; slot 0 is not
\* divided and holds its input value plus the carry out of slot 1, modulo 256.
C5_LowerSlotsHappy ==
    pc = "returned" =>
        /\ \A s \in 2..10 : result[s] \in 0..9
        /\ result[1] = (decimal[1] + CarryOut(decimal, 2)) % 256

\* An unhappy accumulator was carried and slot 0 ended above 9.
C5_Witness ==
    /\ pc = "returned" /\ ~Happy(decimal)
    /\ \A s \in 2..10 : result[s] \in 0..9
    /\ result[1] > 9

\* C6: uitodec(2^k) is slot for slot decimalROM[31-k] for every k in 0..31,
\* uitodec(0) is all zero, uitodec(1) has only the last slot set, to 1, and
\* carryDecimal returns every accumulator whose slots are all in [0,9]
\* unchanged.
C6_HappyIsFixedPoint ==
    /\ carried = 1 =>
          /\ \A k \in Bits : number = ValueOf({k}) => a = At(decimalROM, 31 - k)
          /\ (number = U32(0, 0) => a = ZeroDecimal)
          /\ (number = U32(0, 1) => a = [s \in Slots |-> IF s = 10 THEN 1 ELSE 0])
    /\ (pc = "returned" /\ Happy(decimal) => result = decimal)

\* uitodec(2^31) has returned the first ROM entry.
C6_Witness ==
    /\ carried = 1 /\ number = U32(32768, 0)
    /\ added = <<0>>
    /\ a = <<2, 1, 4, 7, 4, 8, 3, 6, 4, 8>>

\* C7: quotients and remainders have 256 entries each, and the entries read
\* at index b are b divided by 10 rounded down and b modulo 10.
C7_TablesAreDivMod ==
    /\ Len(quotients) = 256
    /\ Len(remainders) = 256
    /\ pc = "returned" =>
          /\ quo = byte \div 10
          /\ rem = byte % 10
          /\ 10 * quo + rem = byte

\* The last entries have been read: 255 = 10 * 25 + 5.
C7_Witness ==
    pc = "returned" /\ byte = 255 /\ quo = 25 /\ rem = 5

\* C8: the index used to read decimalROM is in 0..31; the entries read are
\* those of the set bits of v, each once, from the most significant set bit
\* to the least significant, none for a clear bit (the reads recorded when
\* the loop ends, and still at the end of main, are exactly those);
\* carryDecimal runs once, and only after the loop has ended.
C8_ReadsFollowSetBits ==
    /\ (pc = "scan" /\ ~TopBitClear(i) => count \in 0..31)
    /\ carried = (IF pc \in {"loop", "scan", "carry"} THEN 0 ELSE 1)
    /\ (pc \in {"carry", "done"} => added = ExpectedReads(number, 31))

\* uitodec(0x80000001) read entries 0 and 31 and then carried once.
C8_Witness ==
    /\ pc = "done" /\ number = U32(32768, 1)
    /\ added = <<0, 31>> /\ carried = 1

\* C9: when no slot sum exceeds 255, the two word additions of
\* addDecimalLazy give in every slot the sum of the two slots.
C9_WordAddIsSlotwise ==
    pc = "returned" /\ (\A s \in Slots : d1[s] + d2[s] <= 255) =>
        \A s \in Slots : result[s] = d1[s] + d2[s]

\* Two nonzero accumulators were added with a slot reaching exactly 255.
C9_Witness ==
    /\ pc = "returned"
    /\ \A s \in Slots : d1[s] + d2[s] <= 255
    /\ \E s \in Slots : d1[s] > 0 /\ d2[s] > 0 /\ result[s] = 255

\* C10: uitodec terminates: the inner loop runs only on a nonzero working
\* value, at most 32 left shifts are made, and the accumulator is returned.
C10_Terminates ==
    /\ [](pc = "scan" => NonZero(i))
    /\ [](shifts <= 32)
    /\ <>(carried = 1)

\* uitodec(1) has returned after 32 shifts.
C10_Witness ==
    carried = 1 /\ number = U32(0, 1) /\ shifts = 32
====
